---- MODULE Spec2Model ----
(***************************************************************************)
(* LLMRouter (packages/router: types and llm-router).  The router owns a   *)
(* catalog of ModelConfig entries (a Map in insertion order), selects a    *)
(* model under RoutingConstraints, calls the provider and computes the     *)
(* token cost.                                                             *)
(*                                                                         *)
(* Units.  Rates (costPer1kInput, costPer1kOutput, maxCost) are integers   *)
(* in 10^-5 USD per 1000 tokens, so 0.00015 is 15 and 0.10 is 10000.       *)
(* Costs are integers in 10^-8 USD, so tokens * rate is the cost exactly.  *)
(* temperature and top_p are in tenths.  An optional value (x?: T) is a    *)
(* sequence of length at most one: << >> is undefined, <<v>> is v.         *)
(* A string[] that the code only reads with every/includes is a set.       *)
(***************************************************************************)
EXTENDS Integers, Sequences, FiniteSets, TLC

VARIABLES models, req, console

vars == <<models, req, console>>

\* ------------------------------------------------------------------------
\* Bounds of the model
\* ------------------------------------------------------------------------

\* number of invocations of the router's methods in one behaviour
MaxReq == 2

\* longest catalog table drawn for the selector
MaxCatalog == 3

Reqs == 1..MaxReq

\* ------------------------------------------------------------------------
\* Map<string, ModelConfig>: a sequence of entries in insertion order
\* ------------------------------------------------------------------------

Range(s) == {s[i] : i \in 1..Len(s)}

MapHas(m, k) == \E i \in 1..Len(m) : m[i].key = k

\* Map.prototype.set: an existing key keeps its position, a new key is appended
MapSet(m, k, v) ==
    IF MapHas(m, k)
    THEN [i \in 1..Len(m) |-> IF m[i].key = k THEN [key |-> k, value |-> v] ELSE m[i]]
    ELSE Append(m, [key |-> k, value |-> v])

\* Array.from(map.values())
MapValues(m) == [i \in 1..Len(m) |-> m[i].value]

\* the result of Map.prototype.get on a missing key
NoModel ==
    [provider |-> "undefined", model |-> "undefined", maxTokens |-> 0,
     costPer1kInput |-> 0, costPer1kOutput |-> 0, latencyMs |-> 0,
     quality |-> "undefined", capabilities |-> {}]

MapGet(m, k) ==
    IF MapHas(m, k) THEN (CHOOSE e \in Range(m) : e.key = k).value ELSE NoModel

\* ------------------------------------------------------------------------
\* The catalog
\* ------------------------------------------------------------------------

Gpt4o ==
    [provider |-> "openai", model |-> "gpt-4o", maxTokens |-> 128000,
     costPer1kInput |-> 500, costPer1kOutput |-> 1500, latencyMs |-> 2000,
     quality |-> "high",
     capabilities |-> {"reasoning", "creativity", "analysis", "multimodal"}]

Gpt4oMini ==
    [provider |-> "openai", model |-> "gpt-4o-mini", maxTokens |-> 128000,
     costPer1kInput |-> 15, costPer1kOutput |-> 60, latencyMs |-> 1000,
     quality |-> "medium",
     capabilities |-> {"reasoning", "creativity", "analysis"}]

Gpt35Turbo ==
    [provider |-> "openai", model |-> "gpt-3.5-turbo", maxTokens |-> 16385,
     costPer1kInput |-> 50, costPer1kOutput |-> 150, latencyMs |-> 500,
     quality |-> "low",
     capabilities |-> {"basic_reasoning", "creativity"}]

TextEmbedding3Small ==
    [provider |-> "openai", model |-> "text-embedding-3-small", maxTokens |-> 8192,
     costPer1kInput |-> 2, costPer1kOutput |-> 0, latencyMs |-> 200,
     quality |-> "medium",
     capabilities |-> {"embeddings"}]

\* a faulty table: gpt-4o-mini is entered with the rates of gpt-4o
initializeModelsMiniRates ==
    MapSet(MapSet(MapSet(MapSet(<< >>,
        "gpt-4o", Gpt4o),
        "gpt-4o-mini", [Gpt4oMini EXCEPT !.costPer1kInput = 500,
                                         !.costPer1kOutput = 1500]),
        "gpt-3.5-turbo", Gpt35Turbo),
        "text-embedding-3-small", TextEmbedding3Small)

initializeModels ==
    MapSet(MapSet(MapSet(MapSet(<< >>,
        "gpt-4o", Gpt4o),
        "gpt-4o-mini", Gpt4oMini),
        "gpt-3.5-turbo", Gpt35Turbo),
        "text-embedding-3-small", TextEmbedding3Small)

\* Two further table rows, used to draw catalogs other than the built-in one:
\* AltMedium has the combined rate of gpt-4o-mini and a lower latency, AltHigh
\* has the combined rate of gpt-3.5-turbo and a higher latency; both carry
\* basic_reasoning.
AltMedium ==
    [provider |-> "openai", model |-> "alt-medium", maxTokens |-> 4096,
     costPer1kInput |-> 25, costPer1kOutput |-> 50, latencyMs |-> 400,
     quality |-> "medium",
     capabilities |-> {"reasoning", "basic_reasoning", "creativity"}]

AltHigh ==
    [provider |-> "openai", model |-> "alt-high", maxTokens |-> 32000,
     costPer1kInput |-> 100, costPer1kOutput |-> 100, latencyMs |-> 3000,
     quality |-> "high",
     capabilities |-> {"reasoning", "basic_reasoning"}]

\* a further row for the facade's catalogs: an embedding model under another
\* name, cheaper than text-embedding-3-small
AltEmbedding ==
    [provider |-> "openai", model |-> "alt-embedding", maxTokens |-> 8192,
     costPer1kInput |-> 1, costPer1kOutput |-> 0, latencyMs |-> 100,
     quality |-> "medium",
     capabilities |-> {"embeddings"}]

Pool == {Gpt4o, Gpt4oMini, Gpt35Turbo, TextEmbedding3Small, AltMedium, AltHigh}

\* a table of rows, each stored under its own model name, as initializeModels does
RECURSIVE TableOf(_)
TableOf(rows) ==
    IF rows = << >> THEN << >>
    ELSE MapSet(TableOf(SubSeq(rows, 1, Len(rows) - 1)),
                rows[Len(rows)].model, rows[Len(rows)])

RowSeqs ==
    UNION {{s \in [1..n -> Pool] : \A i, j \in 1..n : i # j => s[i] # s[j]} :
           n \in 0..MaxCatalog}

\* the catalogs of the selector's specification
Catalogs == {TableOf(s) : s \in RowSeqs} \cup {initializeModels}

\* the catalogs of the facade's specification: the built-in table, a table on
\* which the default chat constraints are feasible, a table with no
\* embedding model, and a table whose only embedding model is not named
\* text-embedding-3-small
FacadeCatalogs ==
    {initializeModels,
     TableOf(<<Gpt4oMini, AltMedium, TextEmbedding3Small>>),
     TableOf(<<AltHigh, Gpt35Turbo>>),
     TableOf(<<AltHigh, AltEmbedding>>)}

\* ------------------------------------------------------------------------
\* routeRequest
\* ------------------------------------------------------------------------

\* JavaScript truthiness of an optional number: undefined and 0 are falsy
Truthy(opt) == opt # << >> /\ opt[1] # 0

\* a faulty filter: a medium request does not exclude low models
passesFilterMediumAsLow(model, constraints) ==
    IF constraints.requiredQuality = "high" /\ model.quality # "high" THEN FALSE
    ELSE IF ~(\A cap \in constraints.requiredCapabilities :
                 cap \in model.capabilities) THEN FALSE
    ELSE IF Truthy(constraints.maxCost)
            /\ (model.costPer1kInput + model.costPer1kOutput) > constraints.maxCost[1]
         THEN FALSE
    ELSE TRUE

\* a faulty filter: some instead of every required capability
passesFilterSomeCapability(model, constraints) ==
    IF constraints.requiredQuality = "high" /\ model.quality # "high" THEN FALSE
    ELSE IF constraints.requiredQuality = "medium" /\ model.quality = "low" THEN FALSE
    ELSE IF ~(\E cap \in constraints.requiredCapabilities :
                 cap \in model.capabilities) THEN FALSE
    ELSE IF Truthy(constraints.maxCost)
            /\ (model.costPer1kInput + model.costPer1kOutput) > constraints.maxCost[1]
         THEN FALSE
    ELSE TRUE

\* a faulty filter: a combined rate equal to maxCost is excluded
passesFilterStrictCost(model, constraints) ==
    IF constraints.requiredQuality = "high" /\ model.quality # "high" THEN FALSE
    ELSE IF constraints.requiredQuality = "medium" /\ model.quality = "low" THEN FALSE
    ELSE IF ~(\A cap \in constraints.requiredCapabilities :
                 cap \in model.capabilities) THEN FALSE
    ELSE IF Truthy(constraints.maxCost)
            /\ (model.costPer1kInput + model.costPer1kOutput) >= constraints.maxCost[1]
         THEN FALSE
    ELSE TRUE

\* a faulty filter: the task label takes part, a task other than chat
\* excluding the models without analysis
passesFilterByTask(model, constraints) ==
    IF constraints.requiredQuality = "high" /\ model.quality # "high" THEN FALSE
    ELSE IF constraints.requiredQuality = "medium" /\ model.quality = "low" THEN FALSE
    ELSE IF ~(\A cap \in constraints.requiredCapabilities :
                 cap \in model.capabilities) THEN FALSE
    ELSE IF Truthy(constraints.maxCost)
            /\ (model.costPer1kInput + model.costPer1kOutput) > constraints.maxCost[1]
         THEN FALSE
    ELSE IF constraints.task # "chat" /\ "analysis" \notin model.capabilities THEN FALSE
    ELSE TRUE

\* the callback of availableModels' filter
passesFilter(model, constraints) ==
    IF constraints.requiredQuality = "high" /\ model.quality # "high" THEN FALSE
    ELSE IF constraints.requiredQuality = "medium" /\ model.quality = "low" THEN FALSE
    ELSE IF ~(\A cap \in constraints.requiredCapabilities :
                 cap \in model.capabilities) THEN FALSE
    ELSE IF Truthy(constraints.maxCost)
            /\ (model.costPer1kInput + model.costPer1kOutput) > constraints.maxCost[1]
         THEN FALSE
    ELSE TRUE

\* a faulty comparator: higher cost first
compareCostDescending(a, b) ==
    (b.costPer1kInput + b.costPer1kOutput) - (a.costPer1kInput + a.costPer1kOutput)

\* the comparator of availableModels.sort
compareCost(a, b) ==
    LET aCost == a.costPer1kInput + a.costPer1kOutput
        bCost == b.costPer1kInput + b.costPer1kOutput
    IN  aCost - bCost

\* Array.prototype.sort is stable (ECMAScript 2019): x goes after every element that does not
\* compare greater than it
RECURSIVE InsertSorted(_, _)
InsertSorted(sorted, x) ==
    IF sorted = << >> THEN <<x>>
    ELSE IF compareCost(sorted[Len(sorted)], x) <= 0 THEN Append(sorted, x)
    ELSE Append(InsertSorted(SubSeq(sorted, 1, Len(sorted) - 1), x),
                sorted[Len(sorted)])

RECURSIVE sort(_)
sort(s) ==
    IF s = << >> THEN << >>
    ELSE InsertSorted(sort(SubSeq(s, 1, Len(s) - 1)), s[Len(s)])

NoModelsAvailable == "No models available for the given constraints"

\* a faulty routeRequest: with no model left it falls back to the first
\* catalog entry
routeRequestFallback(m, constraints) ==
    LET availableModels ==
            SelectSeq(MapValues(m), LAMBDA model : passesFilter(model, constraints))
    IN  IF Len(availableModels) = 0
        THEN IF Len(m) = 0
             THEN [ok |-> FALSE, model |-> NoModel, error |-> NoModelsAvailable,
                   available |-> availableModels]
             ELSE [ok |-> TRUE, model |-> MapValues(m)[1], error |-> "",
                   available |-> availableModels]
        ELSE [ok |-> TRUE, model |-> sort(availableModels)[1], error |-> "",
              available |-> availableModels]

\* routeRequest(constraints) on the catalog m: the model it resolves to, or
\* the error it rejects with; available is the filtered array before the sort
routeRequest(m, constraints) ==
    LET availableModels ==
            SelectSeq(MapValues(m), LAMBDA model : passesFilter(model, constraints))
    IN  IF Len(availableModels) = 0
        THEN [ok |-> FALSE, model |-> NoModel, error |-> NoModelsAvailable,
              available |-> availableModels]
        ELSE [ok |-> TRUE, model |-> sort(availableModels)[1], error |-> "",
              available |-> availableModels]

\* ------------------------------------------------------------------------
\* Inputs
\* ------------------------------------------------------------------------

Orgs == {"orgA", "orgB"}

Qualities == {"low", "medium", "high"}

CapabilitySets ==
    {{}, {"reasoning"}, {"basic_reasoning"}, {"embeddings"}, {"reasoning", "creativity"}}

\* maxCost: omitted, zero, negative, the combined rate of gpt-4o-mini, of
\* gpt-3.5-turbo, and the default ceiling
MaxCosts == {<< >>, <<0>>, <<-1>>, <<75>>, <<200>>, <<10000>>}

MaxLatencies == {300, 1000, 5000}

\* the constraint sets of the selector's specification
AllConstraints ==
    [requiredQuality : Qualities, requiredCapabilities : CapabilitySets,
     maxCost : MaxCosts, maxLatency : MaxLatencies,
     task : {"chat"}, locale : {"en"}]

\* constraint sets that differ in their task and locale labels
LabelledConstraints ==
    [requiredQuality : Qualities,
     requiredCapabilities : {{"reasoning"}, {"basic_reasoning"}},
     maxCost : {<< >>, <<200>>}, maxLatency : {5000},
     task : {"chat", "summarize", ""}, locale : {"en", "de"}]

\* the constraint sets direct callers pass in the facade's specification
FacadeConstraints ==
    [requiredQuality : {"medium"},
     requiredCapabilities : {{"reasoning"}, {"basic_reasoning"}},
     maxCost : {<<10000>>}, maxLatency : {300, 5000},
     task : {"chat"}, locale : {"en"}]

NoConstraints ==
    [requiredQuality |-> "undefined", requiredCapabilities |-> {},
     maxCost |-> << >>, maxLatency |-> 0, task |-> "", locale |-> ""]

UserMessage == [role |-> "user", content |-> "hello", name |-> << >>]

SystemMessage == [role |-> "system", content |-> "be brief", name |-> <<"sys">>]

\* a ChatRequest with every option omitted
PlainChat ==
    [messages |-> <<UserMessage>>, model |-> << >>, maxTokens |-> << >>,
     temperature |-> << >>, topP |-> << >>, stream |-> << >>]

\* a ChatRequest with every option set: maxTokens above every model's limit,
\* temperature and topP at 0
TunedChat ==
    [messages |-> <<SystemMessage, UserMessage>>, model |-> <<"gpt-4o">>,
     maxTokens |-> <<200000>>, temperature |-> <<0>>, topP |-> <<0>>,
     stream |-> <<TRUE>>]

\* the ChatRequests of the chat parameters' specification: every option
\* omitted, zero, or set; messages in three orders
ChatRequests ==
    [messages : {<<UserMessage>>, <<SystemMessage, UserMessage>>,
                 <<UserMessage, SystemMessage>>},
     model : {<< >>, <<"gpt-4o">>, <<"no-such-model">>},
     maxTokens : {<< >>, <<0>>, <<500>>, <<200000>>},
     temperature : {<< >>, <<0>>, <<12>>},
     topP : {<< >>, <<0>>, <<5>>},
     stream : {<< >>, <<TRUE>>}]

\* the chatCompletion calls made: (request, orgId)
ChatCalls ==
    {[request |-> PlainChat, orgId |-> "orgA"],
     [request |-> TunedChat, orgId |-> "orgB"]}

\* the generateEmbeddings calls made: (request, orgId); input is a string or a
\* string[]
EmbeddingCalls ==
    {[request |-> [input |-> [isArray |-> FALSE, texts |-> <<"a">>], model |-> << >>],
      orgId |-> "orgA"],
     [request |-> [input |-> [isArray |-> TRUE, texts |-> <<"a", "b">>], model |-> << >>],
      orgId |-> "orgB"]}

\* what the provider's SDK rejects with
ProviderErrors == {"RateLimitError", "InternalServerError", "BadRequestError"}

\* what openai.chat.completions.create settles with; a completion carries at
\* least one choice (n is left at its default of 1), so choices[0] is defined
ChatOutcomes ==
    [status : ProviderErrors, usage : {<< >>}, content : {<< >>},
     finish_reason : {""}]
    \cup
    [status : {"ok"},
     usage : {<< >>,
              <<[prompt_tokens |-> 100, completion_tokens |-> 50, total_tokens |-> 150]>>,
              <<[prompt_tokens |-> 7, completion_tokens |-> 3, total_tokens |-> 12]>>},
     content : {<<"hi">>}, finish_reason : {"stop"}]

\* the items of an embeddings response for the given texts, listed in input
\* order or in reverse
EmbeddingItems(texts, reversed) ==
    [i \in 1..Len(texts) |->
        LET j == IF reversed THEN Len(texts) + 1 - i ELSE i
        IN  [embedding |-> <<"vector of", texts[j]>>, index |-> j - 1,
             object |-> "embedding"]]

\* what openai.embeddings.create settles with
EmbeddingOutcomes(texts) ==
    [status : ProviderErrors, data : {<< >>}, usage : {<< >>}]
    \cup
    [status : {"ok"}, data : {EmbeddingItems(texts, FALSE)}, usage : {<< >>}]
    \cup
    [status : {"ok"},
     data : {EmbeddingItems(texts, FALSE), EmbeddingItems(texts, TRUE)},
     usage : {<<[prompt_tokens |-> 8, total_tokens |-> 8]>>}]

\* Date.now() differences
Latencies == {1200}

\* ------------------------------------------------------------------------
\* State of one invocation
\* ------------------------------------------------------------------------

NoRouted == [ok |-> FALSE, model |-> NoModel, error |-> "", available |-> << >>]

Nothing == [none |-> TRUE]

IdleReq ==
    [kind |-> "none", pc |-> "Idle", hist |-> << >>, orgId |-> "",
     constraints |-> NoConstraints, routed |-> NoRouted, selected |-> NoModel,
     request |-> Nothing, sent |-> Nothing, providerCalls |-> 0,
     response |-> Nothing, result |-> Nothing, error |-> "",
     cancelled |-> FALSE,
     caller |-> "", callerPc |-> "", callerError |-> "", db |-> << >>]

\* invocations take the slots in order
Free(r) == req[r].pc = "Idle" /\ (IF r = 1 THEN TRUE ELSE req[r - 1].pc # "Idle")

\* ------------------------------------------------------------------------
\* Cost
\* ------------------------------------------------------------------------

\* a faulty cost: rounded to 10^-6 USD before it is returned
calculateCostRounded(inputTokens, outputTokens, model) ==
    LET inputCost == inputTokens * model.costPer1kInput
        outputCost == outputTokens * model.costPer1kOutput
    IN  ((inputCost + outputCost + 50) \div 100) * 100

\* (inputTokens / 1000) * costPer1kInput + (outputTokens / 1000) * costPer1kOutput,
\* in 10^-8 USD
calculateCost(inputTokens, outputTokens, model) ==
    LET inputCost == inputTokens * model.costPer1kInput
        outputCost == outputTokens * model.costPer1kOutput
    IN  inputCost + outputCost

\* Number.prototype.toFixed(6) of a cost: the nearest multiple of 10^-6 USD
toFixed6(cost) == (cost + 50) \div 100

\* Math.min
Min(a, b) == IF a < b THEN a ELSE b

\* s || '' for an optional string
OrText(opt) == IF opt = << >> THEN "" ELSE opt[1]

\* x || d
OrDefault(opt, d) == IF Truthy(opt) THEN opt[1] ELSE d

\* ------------------------------------------------------------------------
\* Operations.  An async method runs to its first await when it is invoked, and
\* each continuation runs to the next await or to the return or throw.
\* ------------------------------------------------------------------------

\* the constraints chatCompletion routes with
chatConstraints ==
    [requiredQuality |-> "medium", requiredCapabilities |-> {"basic_reasoning"},
     maxCost |-> <<10000>>, maxLatency |-> 5000, task |-> "chat", locale |-> "en"]

\* a faulty routeRequest call: the sort is done on the catalog itself, which
\* is left in cost order
RouteRequestSortsCatalog(r, constraints) ==
    /\ Free(r)
    /\ LET routed == routeRequest(models, constraints)
           sorted == sort(MapValues(models))
       IN  /\ req' = [req EXCEPT ![r] =
                    [IdleReq EXCEPT
                        !.kind = "route",
                        !.constraints = constraints,
                        !.routed = routed,
                        !.selected = routed.model,
                        !.hist = <<"Selecting", IF routed.ok THEN "Completed" ELSE "Failed">>,
                        !.pc = IF routed.ok THEN "Completed" ELSE "Failed",
                        !.error = routed.error]]
           /\ models' = [i \in 1..Len(sorted) |->
                            [key |-> sorted[i].model, value |-> sorted[i]]]
    /\ UNCHANGED console

\* a faulty routeRequest call: the available models are served in rotation, the
\* n-th invocation of the router getting the n-th cheapest
RouteRequestRotating(r, constraints) ==
    /\ Free(r)
    /\ LET first == routeRequest(models, constraints)
           ranked == sort(first.available)
           routed == IF first.ok
                     THEN [first EXCEPT !.model = ranked[1 + ((r - 1) % Len(ranked))]]
                     ELSE first
       IN  req' = [req EXCEPT ![r] =
                [IdleReq EXCEPT
                    !.kind = "route",
                    !.constraints = constraints,
                    !.routed = routed,
                    !.selected = routed.model,
                    !.hist = <<"Selecting", IF routed.ok THEN "Completed" ELSE "Failed">>,
                    !.pc = IF routed.ok THEN "Completed" ELSE "Failed",
                    !.error = routed.error]]
    /\ UNCHANGED <<models, console>>

\* a direct call of routeRequest: it has no await, so it settles in one step
RouteRequest(r, constraints) ==
    /\ Free(r)
    /\ LET routed == routeRequest(models, constraints)
       IN  req' = [req EXCEPT ![r] =
                [IdleReq EXCEPT
                    !.kind = "route",
                    !.constraints = constraints,
                    !.routed = routed,
                    !.selected = routed.model,
                    !.hist = <<"Selecting", IF routed.ok THEN "Completed" ELSE "Failed">>,
                    !.pc = IF routed.ok THEN "Completed" ELSE "Failed",
                    !.error = routed.error]]
    /\ UNCHANGED <<models, console>>

ModelNotFound == "Model not found"

\* a faulty chatCompletion: a model named in the request is looked up in the
\* catalog and used instead of the routed one
ChatCompletionHonoursModel(r, request, orgId) ==
    /\ Free(r)
    /\ req' = [req EXCEPT ![r] =
            [IdleReq EXCEPT
                !.kind = "chat",
                !.orgId = orgId,
                !.request = request,
                !.constraints = chatConstraints,
                !.routed =
                    IF request.model = << >>
                    THEN routeRequest(models, chatConstraints)
                    ELSE IF MapHas(models, request.model[1])
                    THEN [ok |-> TRUE, model |-> MapGet(models, request.model[1]),
                          error |-> "", available |-> << >>]
                    ELSE [ok |-> FALSE, model |-> NoModel, error |-> ModelNotFound,
                          available |-> << >>],
                !.hist = <<"Constructing", "Selecting">>,
                !.pc = "Selecting"]]
    /\ UNCHANGED <<models, console>>

\* chatCompletion is invoked: startTime is taken and routeRequest is called
\* with the fixed constraints; the method then awaits its promise
ChatCompletion(r, request, orgId) ==
    /\ Free(r)
    /\ req' = [req EXCEPT ![r] =
            [IdleReq EXCEPT
                !.kind = "chat",
                !.orgId = orgId,
                !.request = request,
                !.constraints = chatConstraints,
                !.routed = routeRequest(models, chatConstraints),
                !.hist = <<"Constructing", "Selecting">>,
                !.pc = "Selecting"]]
    /\ UNCHANGED <<models, console>>

\* the arguments of openai.chat.completions.create
chatParams(request, selectedModel) ==
    [model |-> selectedModel.model,
     messages |-> [i \in 1..Len(request.messages) |->
                      [role |-> request.messages[i].role,
                       content |-> request.messages[i].content]],
     max_tokens |-> Min(OrDefault(request.maxTokens, 1000), selectedModel.maxTokens),
     temperature |-> OrDefault(request.temperature, 7),
     top_p |-> OrDefault(request.topP, 10),
     stream |-> FALSE]

\* a faulty continuation: the rejection of routeRequest is swallowed and
\* chatCompletion returns without a provider call
ChatRoutedSwallow(r) ==
    /\ req[r].kind = "chat"
    /\ req[r].pc = "Selecting"
    /\ IF ~req[r].routed.ok
       THEN req' = [req EXCEPT ![r].pc = "Completed",
                               ![r].hist = Append(@, "Completed")]
       ELSE req' = [req EXCEPT ![r].pc = "Executing",
                               ![r].hist = Append(@, "Executing"),
                               ![r].selected = req[r].routed.model,
                               ![r].sent = chatParams(req[r].request, req[r].routed.model),
                               ![r].providerCalls = @ + 1]
    /\ UNCHANGED <<models, console>>

\* a faulty continuation: the provider call is issued twice
ChatRoutedRetry(r) ==
    /\ req[r].kind = "chat"
    /\ req[r].pc = "Selecting"
    /\ IF ~req[r].routed.ok
       THEN req' = [req EXCEPT ![r].pc = "Failed",
                               ![r].hist = Append(@, "Failed"),
                               ![r].error = req[r].routed.error]
       ELSE req' = [req EXCEPT ![r].pc = "Executing",
                               ![r].hist = Append(@, "Executing"),
                               ![r].selected = req[r].routed.model,
                               ![r].sent = chatParams(req[r].request, req[r].routed.model),
                               ![r].providerCalls = @ + 2]
    /\ UNCHANGED <<models, console>>

\* the await of routeRequest settles: a rejection leaves chatCompletion (the
\* call is outside the try), a model starts the provider call
ChatRouted(r) ==
    /\ req[r].kind = "chat"
    /\ req[r].pc = "Selecting"
    /\ IF ~req[r].routed.ok
       THEN req' = [req EXCEPT ![r].pc = "Failed",
                               ![r].hist = Append(@, "Failed"),
                               ![r].error = req[r].routed.error]
       ELSE req' = [req EXCEPT ![r].pc = "Executing",
                               ![r].hist = Append(@, "Executing"),
                               ![r].selected = req[r].routed.model,
                               ![r].sent = chatParams(req[r].request, req[r].routed.model),
                               ![r].providerCalls = @ + 1]
    /\ UNCHANGED <<models, console>>

NoUsageData == "No usage data received from OpenAI"

\* a faulty continuation: the cost line is written before the outcome is
\* examined, so a failed call leaves one too
ChatSettledTracksFirst(r, completion, latency) ==
    /\ req[r].kind = "chat"
    /\ req[r].pc = "Executing"
    /\ LET selectedModel == req[r].selected
           usage == IF completion.usage = << >>
                    THEN [prompt_tokens |-> 0, completion_tokens |-> 0, total_tokens |-> 0]
                    ELSE completion.usage[1]
           cost == calculateCost(usage.prompt_tokens, usage.completion_tokens,
                                 selectedModel)
           tracked == [level |-> "log", text |-> "Cost tracked for org",
                       orgId |-> req[r].orgId, cost |-> toFixed6(cost),
                       error |-> "", by |-> r]
           failure == IF completion.status # "ok" THEN completion.status
                      ELSE IF completion.usage = << >> THEN NoUsageData
                      ELSE ""
       IN  IF failure # ""
           THEN /\ req' = [req EXCEPT ![r].pc = "Failed",
                                      ![r].hist = Append(@, "Failed"),
                                      ![r].response = completion,
                                      ![r].error = failure]
                /\ console' = console \o
                        <<tracked,
                          [level |-> "error", text |-> "Chat completion failed:",
                           orgId |-> "", cost |-> 0, error |-> failure, by |-> r]>>
           ELSE /\ req' = [req EXCEPT
                        ![r].pc = "Completed",
                        ![r].hist = @ \o <<"Accounting", "Completed">>,
                        ![r].response = completion,
                        ![r].result =
                            [provider |-> selectedModel.provider,
                             model |-> selectedModel.model,
                             content |-> OrText(completion.content),
                             usage |-> [promptTokens |-> usage.prompt_tokens,
                                        completionTokens |-> usage.completion_tokens,
                                        totalTokens |-> usage.total_tokens,
                                        cost |-> cost],
                             latency |-> latency,
                             metadata |-> [finishReason |-> completion.finish_reason,
                                           model |-> selectedModel.model]]]
                /\ console' = Append(console, tracked)
    /\ UNCHANGED models

\* a faulty continuation: without usage data the token counts are estimated
\* and the call completes
ChatSettledEstimates(r, completion, latency) ==
    /\ req[r].kind = "chat"
    /\ req[r].pc = "Executing"
    /\ LET selectedModel == req[r].selected
           failure == IF completion.status # "ok" THEN completion.status ELSE ""
       IN  IF failure # ""
           THEN /\ req' = [req EXCEPT ![r].pc = "Failed",
                                      ![r].hist = Append(@, "Failed"),
                                      ![r].response = completion,
                                      ![r].error = failure]
                /\ console' = Append(console,
                        [level |-> "error", text |-> "Chat completion failed:",
                         orgId |-> "", cost |-> 0, error |-> failure, by |-> r])
           ELSE LET usage == IF completion.usage = << >>
                             THEN [prompt_tokens |-> 4 * Len(req[r].request.messages),
                                   completion_tokens |-> 4,
                                   total_tokens |-> 4 * Len(req[r].request.messages) + 4]
                             ELSE completion.usage[1]
                    cost == calculateCost(usage.prompt_tokens,
                                          usage.completion_tokens, selectedModel)
                IN  /\ req' = [req EXCEPT
                            ![r].pc = "Completed",
                            ![r].hist = @ \o <<"Accounting", "Completed">>,
                            ![r].response = completion,
                            ![r].result =
                                [provider |-> selectedModel.provider,
                                 model |-> selectedModel.model,
                                 content |-> OrText(completion.content),
                                 usage |-> [promptTokens |-> usage.prompt_tokens,
                                            completionTokens |-> usage.completion_tokens,
                                            totalTokens |-> usage.total_tokens,
                                            cost |-> cost],
                                 latency |-> latency,
                                 metadata |-> [finishReason |-> completion.finish_reason,
                                               model |-> selectedModel.model]]]
                    /\ console' = Append(console,
                            [level |-> "log", text |-> "Cost tracked for org",
                             orgId |-> req[r].orgId, cost |-> toFixed6(cost),
                             error |-> "", by |-> r])
    /\ UNCHANGED models

\* the provider call of chatCompletion settles
ChatSettled(r, completion, latency) ==
    /\ req[r].kind = "chat"
    /\ req[r].pc = "Executing"
    /\ LET selectedModel == req[r].selected
           failure == IF completion.status # "ok" THEN completion.status
                      ELSE IF completion.usage = << >> THEN NoUsageData
                      ELSE ""
       IN  IF failure # ""
           THEN \* catch: console.error, throw error
                /\ req' = [req EXCEPT ![r].pc = "Failed",
                                      ![r].hist = Append(@, "Failed"),
                                      ![r].response = completion,
                                      ![r].error = failure]
                /\ console' = Append(console,
                        [level |-> "error", text |-> "Chat completion failed:",
                         orgId |-> "", cost |-> 0, error |-> failure, by |-> r])
           ELSE LET usage == completion.usage[1]
                    cost == calculateCost(usage.prompt_tokens,
                                          usage.completion_tokens, selectedModel)
                IN  /\ req' = [req EXCEPT
                            ![r].pc = "Completed",
                            ![r].hist = @ \o <<"Accounting", "Completed">>,
                            ![r].response = completion,
                            ![r].result =
                                [provider |-> selectedModel.provider,
                                 model |-> selectedModel.model,
                                 content |-> OrText(completion.content),
                                 usage |-> [promptTokens |-> usage.prompt_tokens,
                                            completionTokens |-> usage.completion_tokens,
                                            totalTokens |-> usage.total_tokens,
                                            cost |-> cost],
                                 latency |-> latency,
                                 metadata |-> [finishReason |-> completion.finish_reason,
                                               model |-> selectedModel.model]]]
                    /\ console' = Append(console,
                            [level |-> "log", text |-> "Cost tracked for org",
                             orgId |-> req[r].orgId, cost |-> toFixed6(cost),
                             error |-> "", by |-> r])
    /\ UNCHANGED models

EmbeddingModelName == "text-embedding-3-small"

EmbeddingModelMissing == "Embedding model not available"

\* generateEmbeddings is invoked: the embedding model is looked up by name and,
\* when present, the provider call starts before the first await
GenerateEmbeddings(r, request, orgId) ==
    /\ Free(r)
    /\ LET embeddingModel == MapGet(models, EmbeddingModelName)
       IN  IF ~MapHas(models, EmbeddingModelName)
           THEN req' = [req EXCEPT ![r] =
                    [IdleReq EXCEPT
                        !.kind = "embed", !.orgId = orgId, !.request = request,
                        !.hist = <<"Constructing", "Selecting", "Failed">>,
                        !.pc = "Failed",
                        !.error = EmbeddingModelMissing]]
           ELSE req' = [req EXCEPT ![r] =
                    [IdleReq EXCEPT
                        !.kind = "embed", !.orgId = orgId, !.request = request,
                        !.selected = embeddingModel,
                        !.sent = [model |-> embeddingModel.model,
                                  input |-> request.input],
                        !.providerCalls = 1,
                        !.hist = <<"Constructing", "Selecting", "Executing">>,
                        !.pc = "Executing"]]
    /\ UNCHANGED <<models, console>>

UsageTypeError == "TypeError: Cannot read properties of undefined"

\* the provider call of generateEmbeddings settles
EmbeddingsSettled(r, embeddings) ==
    /\ req[r].kind = "embed"
    /\ req[r].pc = "Executing"
    /\ LET embeddingModel == req[r].selected
           failure == IF embeddings.status # "ok" THEN embeddings.status
                      ELSE IF embeddings.usage = << >> THEN UsageTypeError
                      ELSE ""
       IN  IF failure # ""
           THEN /\ req' = [req EXCEPT ![r].pc = "Failed",
                                      ![r].hist = Append(@, "Failed"),
                                      ![r].response = embeddings,
                                      ![r].error = failure]
                /\ console' = Append(console,
                        [level |-> "error", text |-> "Embedding generation failed:",
                         orgId |-> "", cost |-> 0, error |-> failure, by |-> r])
           ELSE LET usage == embeddings.usage[1]
                    cost == calculateCost(usage.prompt_tokens, 0, embeddingModel)
                IN  /\ req' = [req EXCEPT
                            ![r].pc = "Completed",
                            ![r].hist = @ \o <<"Accounting", "Completed">>,
                            ![r].response = embeddings,
                            ![r].result =
                                [data |-> [i \in 1..Len(embeddings.data) |->
                                              [embedding |-> embeddings.data[i].embedding,
                                               index |-> embeddings.data[i].index,
                                               object |-> embeddings.data[i].object]],
                                 model |-> embeddingModel.model,
                                 usage |-> [promptTokens |-> usage.prompt_tokens,
                                            totalTokens |-> usage.total_tokens]]]
                    /\ console' = Append(console,
                            [level |-> "log", text |-> "Embedding cost tracked for org",
                             orgId |-> req[r].orgId, cost |-> toFixed6(cost),
                             error |-> "", by |-> r])
    /\ UNCHANGED models

\* ------------------------------------------------------------------------
\* VectorStore: storeEmbedding and similaritySearch call generateEmbeddings and
\* then the database.  caller names the method that made the call, callerPc is
\* its position, db the statements it has executed.
\* ------------------------------------------------------------------------

\* the documents stored: (orgId, content, type)
Documents == {[orgId |-> "orgA", content |-> "a", type |-> "content"]}

\* the searches made: (query, orgId, type)
Queries == {[query |-> "b", orgId |-> "orgB", type |-> "persona"]}

\* the invocation generateEmbeddings(request, orgId) leaves at its first await,
\* or at its throw when the embedding model is missing
embeddingsInvocation(request, orgId) ==
    LET embeddingModel == MapGet(models, EmbeddingModelName)
    IN  IF ~MapHas(models, EmbeddingModelName)
        THEN [IdleReq EXCEPT
                !.kind = "embed", !.orgId = orgId, !.request = request,
                !.hist = <<"Constructing", "Selecting", "Failed">>,
                !.pc = "Failed",
                !.error = EmbeddingModelMissing]
        ELSE [IdleReq EXCEPT
                !.kind = "embed", !.orgId = orgId, !.request = request,
                !.selected = embeddingModel,
                !.sent = [model |-> embeddingModel.model, input |-> request.input],
                !.providerCalls = 1,
                !.hist = <<"Constructing", "Selecting", "Executing">>,
                !.pc = "Executing"]

\* storeEmbedding is invoked: generateEmbeddings({input: content}, orgId) is
\* called and awaited
StoreEmbedding(r, document) ==
    /\ Free(r)
    /\ req' = [req EXCEPT ![r] =
            [embeddingsInvocation(
                [input |-> [isArray |-> FALSE, texts |-> <<document.content>>],
                 model |-> << >>],
                document.orgId)
             EXCEPT !.caller = "storeEmbedding",
                    !.callerPc = "AwaitingEmbeddings"]]
    /\ UNCHANGED <<models, console>>

\* similaritySearch is invoked: generateEmbeddings({input: query}, orgId) is
\* called and awaited
SimilaritySearch(r, search) ==
    /\ Free(r)
    /\ req' = [req EXCEPT ![r] =
            [embeddingsInvocation(
                [input |-> [isArray |-> FALSE, texts |-> <<search.query>>],
                 model |-> << >>],
                search.orgId)
             EXCEPT !.caller = "similaritySearch",
                    !.callerPc = "AwaitingEmbeddings"]]
    /\ UNCHANGED <<models, console>>

StoreFailed == "Failed to store embedding:"

SearchFailed == "Similarity search failed:"

FailedText(caller) == IF caller = "storeEmbedding" THEN StoreFailed ELSE SearchFailed

\* the statement the method executes with the vector it got
Statement(q, embedding) ==
    [sql |-> IF q.caller = "storeEmbedding" THEN "INSERT INTO embeddings"
             ELSE "SELECT * FROM similarity_search",
     orgId |-> q.orgId, text |-> q.request.input.texts[1], embedding |-> embedding]

\* a faulty continuation: a failed generateEmbeddings call is passed over and
\* the statement is executed with an empty vector
VectorResumedStoresAnyway(r) ==
    /\ req[r].kind = "embed"
    /\ req[r].callerPc = "AwaitingEmbeddings"
    /\ req[r].pc \in {"Completed", "Failed"}
    /\ req' = [req EXCEPT
            ![r].callerPc = "AwaitingDb",
            ![r].db = Append(@, Statement(req[r],
                        IF req[r].pc = "Failed" \/ Len(req[r].result.data) = 0
                        THEN << >> ELSE req[r].result.data[1].embedding))]
    /\ UNCHANGED <<models, console>>

\* the await of generateEmbeddings settles in storeEmbedding or
\* similaritySearch: a rejection is logged and rethrown by the catch; from a
\* response data[0].embedding is read and the statement is executed
VectorResumed(r) ==
    /\ req[r].kind = "embed"
    /\ req[r].callerPc = "AwaitingEmbeddings"
    /\ req[r].pc \in {"Completed", "Failed"}
    /\ LET failure == IF req[r].pc = "Failed" THEN req[r].error
                      ELSE IF Len(req[r].result.data) = 0 THEN UsageTypeError
                      ELSE ""
       IN  IF failure # ""
           THEN /\ req' = [req EXCEPT ![r].callerPc = "Rejected",
                                      ![r].callerError = failure]
                /\ console' = Append(console,
                        [level |-> "error", text |-> FailedText(req[r].caller),
                         orgId |-> "", cost |-> 0, error |-> failure, by |-> r])
           ELSE /\ req' = [req EXCEPT
                        ![r].callerPc = "AwaitingDb",
                        ![r].db = Append(@, Statement(req[r],
                                                req[r].result.data[1].embedding))]
                /\ UNCHANGED console
    /\ UNCHANGED models

DbErrors == {"PostgresError"}

\* db.execute settles: the method returns, or its catch logs and rethrows
DbSettled(r, outcome) ==
    /\ req[r].kind = "embed"
    /\ req[r].callerPc = "AwaitingDb"
    /\ IF outcome \in DbErrors
       THEN /\ req' = [req EXCEPT ![r].callerPc = "Rejected",
                                  ![r].callerError = outcome]
            /\ console' = Append(console,
                    [level |-> "error", text |-> FailedText(req[r].caller),
                     orgId |-> "", cost |-> 0, error |-> outcome, by |-> r])
       ELSE /\ req' = [req EXCEPT ![r].callerPc = "Resolved"]
            /\ IF req[r].caller = "storeEmbedding"
               THEN console' = Append(console,
                        [level |-> "log", text |-> "Stored embedding for document",
                         orgId |-> "", cost |-> 0, error |-> "", by |-> r])
               ELSE UNCHANGED console
    /\ UNCHANGED models

\* a console line that tracks the cost of a call
CostLine(l) ==
    /\ l.level = "log"
    /\ l.text \in {"Cost tracked for org", "Embedding cost tracked for org"}

\* a faulty summary: it counts the cost lines of every organization
getCostSummaryAllOrgs(log, orgId) ==
    [totalCost |-> 0, totalTokens |-> 0,
     requests |-> Len(SelectSeq(log, CostLine)), breakdown |-> << >>]

\* a faulty summary: the count is taken from the lines of the organization,
\* the totals are not
getCostSummaryCountOnly(log, orgId) ==
    [totalCost |-> 0, totalTokens |-> 0,
     requests |-> Len(SelectSeq(log, LAMBDA l : CostLine(l) /\ l.orgId = orgId)),
     breakdown |-> << >>]

\* what getCostSummary(orgId) returns when the lines written so far are log:
\* the placeholder summary, which reads neither
getCostSummary(log, orgId) ==
    [totalCost |-> 0, totalTokens |-> 0, requests |-> 0, breakdown |-> << >>]

\* getCostSummary logs the request and returns; it has no await
GetCostSummary(r, orgId) ==
    /\ Free(r)
    /\ req' = [req EXCEPT ![r] =
            [IdleReq EXCEPT
                !.kind = "summary", !.orgId = orgId,
                !.hist = <<"Completed">>,
                !.pc = "Completed",
                !.result = getCostSummary(console, orgId)]]
    /\ console' = Append(console,
            [level |-> "log", text |-> "Cost summary requested for org",
             orgId |-> orgId, cost |-> 0, error |-> "", by |-> r])
    /\ UNCHANGED models

\* The caller of chatCompletion or generateEmbeddings gives up while the provider
\* call is in flight.  Neither method takes an abort signal and neither passes
\* one to the provider call, so nothing of the invocation changes: the call
\* stays in flight and its continuation runs when it settles.
Cancel(r) ==
    /\ req[r].kind \in {"chat", "embed"}
    /\ req[r].pc = "Executing"
    /\ ~req[r].cancelled
    /\ req' = [req EXCEPT ![r].cancelled = TRUE]
    /\ UNCHANGED <<models, console>>

\* ------------------------------------------------------------------------
\* Specifications
\* ------------------------------------------------------------------------

\* the router facade: a few catalogs, MaxReq invocations that interleave at
\* their awaits
Init ==
    /\ models \in FacadeCatalogs
    /\ req = [r \in Reqs |-> IdleReq]
    /\ console = << >>

Next ==
    \/ \E r \in Reqs, constraints \in FacadeConstraints : RouteRequest(r, constraints)
    \/ \E r \in Reqs, call \in ChatCalls :
            ChatCompletion(r, call.request, call.orgId)
    \/ \E r \in Reqs : ChatRouted(r)
    \/ \E r \in Reqs, completion \in ChatOutcomes, latency \in Latencies :
            ChatSettled(r, completion, latency)
    \/ \E r \in Reqs, call \in EmbeddingCalls :
            GenerateEmbeddings(r, call.request, call.orgId)
    \/ \E r \in Reqs :
            /\ req[r].kind = "embed"
            /\ \E embeddings \in EmbeddingOutcomes(req[r].request.input.texts) :
                    EmbeddingsSettled(r, embeddings)
    \/ \E r \in Reqs, orgId \in Orgs : GetCostSummary(r, orgId)

Spec == Init /\ [][Next]_vars

\* the facade's two provider-calling methods with callers that may give up
\* while the provider call is in flight
NextCancel ==
    \/ \E r \in Reqs, call \in ChatCalls :
            ChatCompletion(r, call.request, call.orgId)
    \/ \E r \in Reqs : ChatRouted(r)
    \/ \E r \in Reqs, completion \in ChatOutcomes, latency \in Latencies :
            ChatSettled(r, completion, latency)
    \/ \E r \in Reqs, call \in EmbeddingCalls :
            GenerateEmbeddings(r, call.request, call.orgId)
    \/ \E r \in Reqs :
            /\ req[r].kind = "embed"
            /\ \E embeddings \in EmbeddingOutcomes(req[r].request.input.texts) :
                    EmbeddingsSettled(r, embeddings)
    \/ \E r \in Reqs : Cancel(r)

SpecCancel == Init /\ [][NextCancel]_vars

\* chatCompletion up to its provider call: one invocation with a request drawn
\* from ChatRequests
NextChat ==
    \/ \E request \in ChatRequests : ChatCompletion(1, request, "orgA")
    \/ ChatRouted(1)

SpecChat == Init /\ [][NextChat]_vars

\* the selector alone: one routeRequest call on a catalog drawn from Catalogs
InitSelect ==
    /\ models \in Catalogs
    /\ req = [r \in Reqs |-> IdleReq]
    /\ console = << >>

NextSelect == \E constraints \in AllConstraints : RouteRequest(1, constraints)

SpecSelect == InitSelect /\ [][NextSelect]_vars

\* the selector alone, on constraint sets with different labels
NextLabels == \E constraints \in LabelledConstraints : RouteRequest(1, constraints)

SpecLabels == InitSelect /\ [][NextLabels]_vars

\* the vector store on top of the router: storeEmbedding and similaritySearch
\* calls, next to chatCompletion calls, on a table where both methods reach
\* the provider and on a table without the embedding model
InitStore ==
    /\ models \in {TableOf(<<Gpt4oMini, AltMedium, TextEmbedding3Small>>),
                   TableOf(<<AltHigh, Gpt35Turbo>>)}
    /\ req = [r \in Reqs |-> IdleReq]
    /\ console = << >>

NextStore ==
    \/ \E r \in Reqs : ChatCompletion(r, PlainChat, "orgA")
    \/ \E r \in Reqs : ChatRouted(r)
    \/ \E r \in Reqs, completion \in ChatOutcomes, latency \in Latencies :
            ChatSettled(r, completion, latency)
    \/ \E r \in Reqs, document \in Documents : StoreEmbedding(r, document)
    \/ \E r \in Reqs, search \in Queries : SimilaritySearch(r, search)
    \/ \E r \in Reqs :
            /\ req[r].kind = "embed"
            /\ \E embeddings \in EmbeddingOutcomes(req[r].request.input.texts) :
                    EmbeddingsSettled(r, embeddings)
    \/ \E r \in Reqs : VectorResumed(r)
    \/ \E r \in Reqs, outcome \in DbErrors \cup {"ok"} : DbSettled(r, outcome)

SpecStore == InitStore /\ [][NextStore]_vars

\* ------------------------------------------------------------------------
\* Vocabulary of the properties
\* ------------------------------------------------------------------------

QualityRank(q) == CASE q = "low" -> 1 [] q = "medium" -> 2 [] q = "high" -> 3

CombinedRate(m) == m.costPer1kInput + m.costPer1kOutput

CatalogModels == Range(MapValues(models))

\* position of a catalog model in insertion order
InsertionIndex(m) == CHOOSE i \in 1..Len(models) : models[i].value = m

MeetsQuality(m, c) == QualityRank(m.quality) >= QualityRank(c.requiredQuality)

MeetsCapabilities(m, c) == c.requiredCapabilities \subseteq m.capabilities

\* no ceiling when maxCost is omitted or zero
MeetsCost(m, c) ==
    \/ c.maxCost = << >>
    \/ c.maxCost = <<0>>
    \/ CombinedRate(m) <= c.maxCost[1]

Feasible(m, c) == MeetsQuality(m, c) /\ MeetsCapabilities(m, c) /\ MeetsCost(m, c)

FeasibleSet(c) == {m \in CatalogModels : Feasible(m, c)}

\* routeRequest has run for invocation r (directly, or inside chatCompletion)
Routing(r) == req[r].kind \in {"route", "chat"}

\* routeRequest returned a model to invocation r
Returned(r) == Routing(r) /\ req[r].routed.ok

\* ------------------------------------------------------------------------
\* C1
\* ------------------------------------------------------------------------

C2_FailsIffNoFeasibleModel ==
    \A r \in Reqs :
        Routing(r) =>
            /\ (~req[r].routed.ok) <=> (FeasibleSet(req[r].constraints) = {})
            /\ (~req[r].routed.ok) =>
                    /\ req[r].routed.error = NoModelsAvailable
                    /\ req[r].routed.model = NoModel
            /\ req[r].routed.ok =>
                    /\ req[r].routed.error = ""
                    /\ req[r].routed.model \in FeasibleSet(req[r].constraints)

\* a rejected selection on a catalog that holds a model passing the quality
\* and the cost filter but not the capability filter
C2_Witness ==
    \E r \in Reqs :
        /\ req[r].kind = "route"
        /\ req[r].pc = "Failed"
        /\ req[r].routed.error = NoModelsAvailable
        /\ \E m \in CatalogModels :
                /\ MeetsQuality(m, req[r].constraints)
                /\ MeetsCost(m, req[r].constraints)
                /\ ~MeetsCapabilities(m, req[r].constraints)

\* ------------------------------------------------------------------------
\* C3
\* ------------------------------------------------------------------------

\* C3: a model returned by routeRequest has a quality tier at least the
\* requested one under low < medium < high, and the quality filter excludes
\* nothing else: every catalog model of sufficient tier that meets the
\* capability and cost requirements is in the filtered array.
C3_QualityAtLeast ==
    \A r \in Reqs :
        Routing(r) =>
            /\ req[r].routed.ok =>
                    QualityRank(req[r].routed.model.quality)
                        >= QualityRank(req[r].constraints.requiredQuality)
            /\ \A m \in Range(req[r].routed.available) :
                    MeetsQuality(m, req[r].constraints)
            /\ \A m \in CatalogModels :
                    Feasible(m, req[r].constraints) =>
                        m \in Range(req[r].routed.available)

\* a medium request that returned a high model while the catalog holds a
\* low model meeting the capability and cost requirements
C3_Witness ==
    \E r \in Reqs :
        /\ req[r].kind = "route"
        /\ req[r].routed.ok
        /\ req[r].constraints.requiredQuality = "medium"
        /\ req[r].routed.model.quality = "high"
        /\ \E m \in CatalogModels :
                /\ m.quality = "low"
                /\ MeetsCapabilities(m, req[r].constraints)
                /\ MeetsCost(m, req[r].constraints)

\* ------------------------------------------------------------------------
\* C4
\* ------------------------------------------------------------------------

\* C4: a model returned by routeRequest carries every required capability,
\* and with an empty required set the filtered array holds every catalog model
\* that meets the quality and cost requirements.
C4_CapabilitiesSubset ==
    \A r \in Reqs :
        Routing(r) =>
            /\ req[r].routed.ok =>
                    req[r].constraints.requiredCapabilities
                        \subseteq req[r].routed.model.capabilities
            /\ req[r].constraints.requiredCapabilities = {} =>
                    \A m \in CatalogModels :
                        (MeetsQuality(m, req[r].constraints)
                            /\ MeetsCost(m, req[r].constraints)) =>
                                m \in Range(req[r].routed.available)

\* a request for two capabilities that returned a model while the catalog
\* holds a cheaper model carrying only one of them
C4_Witness ==
    \E r \in Reqs :
        /\ req[r].kind = "route"
        /\ req[r].routed.ok
        /\ Cardinality(req[r].constraints.requiredCapabilities) = 2
        /\ \E m \in CatalogModels :
                /\ CombinedRate(m) < CombinedRate(req[r].routed.model)
                /\ MeetsQuality(m, req[r].constraints)
                /\ MeetsCost(m, req[r].constraints)
                /\ m.capabilities \cap req[r].constraints.requiredCapabilities # {}
                /\ ~MeetsCapabilities(m, req[r].constraints)

\* ------------------------------------------------------------------------
\* C5
\* ------------------------------------------------------------------------

\* C5: with a positive maxCost no returned model has a combined rate above
\* maxCost and a model whose combined rate equals maxCost is not excluded by
\* the cost filter; with maxCost zero or omitted the cost filter excludes no
\* model.
C5_CostCeiling ==
    \A r \in Reqs :
        Routing(r) =>
            LET c == req[r].constraints
            IN  /\ (req[r].routed.ok /\ c.maxCost # << >> /\ c.maxCost[1] > 0) =>
                        CombinedRate(req[r].routed.model) <= c.maxCost[1]
                /\ \A m \in CatalogModels :
                        (/\ MeetsQuality(m, c)
                         /\ MeetsCapabilities(m, c)
                         /\ \/ c.maxCost = << >>
                            \/ c.maxCost[1] = 0
                            \/ (c.maxCost[1] > 0 /\ CombinedRate(m) = c.maxCost[1])) =>
                                m \in Range(req[r].routed.available)

\* a request with a positive maxCost that returned a model whose combined rate
\* equals maxCost while a dearer model met quality and capabilities
C5_Witness ==
    \E r \in Reqs :
        /\ req[r].kind = "route"
        /\ req[r].routed.ok
        /\ req[r].constraints.maxCost # << >>
        /\ req[r].constraints.maxCost[1] > 0
        /\ CombinedRate(req[r].routed.model) = req[r].constraints.maxCost[1]
        /\ \E m \in CatalogModels :
                /\ MeetsQuality(m, req[r].constraints)
                /\ MeetsCapabilities(m, req[r].constraints)
                /\ CombinedRate(m) > req[r].constraints.maxCost[1]

\* ------------------------------------------------------------------------
\* C6
\* ------------------------------------------------------------------------

\* C6: on the built-in catalog routeRequest never returns a model whose
\* latencyMs is greater than constraints.maxLatency.
C6_LatencyCeiling ==
    \A r \in Reqs :
        (models = initializeModels /\ Returned(r)) =>
            req[r].routed.model.latencyMs <= req[r].constraints.maxLatency

\* ------------------------------------------------------------------------
\* C7
\* ------------------------------------------------------------------------

\* C7: chatCompletion, whose caller supplies no constraints, runs the selection
\* with requiredQuality medium and requiredCapabilities {reasoning}, with the
\* default maxCost and maxLatency.
C7_DefaultConstraints ==
    \A r \in Reqs :
        req[r].kind = "chat" =>
            /\ req[r].constraints.requiredQuality = "medium"
            /\ req[r].constraints.requiredCapabilities = {"reasoning"}
            /\ req[r].constraints.maxCost = <<10000>>
            /\ req[r].constraints.maxLatency = 5000

\* ------------------------------------------------------------------------
\* C8
\* ------------------------------------------------------------------------

\* the constraints of the example: medium, maxCost 0.10, {reasoning}
ExampleConstraints(c) ==
    /\ c.requiredQuality = "medium"
    /\ c.maxCost = <<10000>>
    /\ c.requiredCapabilities = {"reasoning"}

\* C8: the built-in catalog holds gpt-4o (high, combined 0.020), gpt-4o-mini
\* (medium, 0.00075), gpt-3.5-turbo (low, 0.002) and text-embedding-3-small,
\* and on it routeRequest with medium, maxCost 0.10 and {reasoning} filters to
\* exactly gpt-4o and gpt-4o-mini and returns gpt-4o-mini.
C8_ExampleSelection ==
    \A r \in Reqs :
        (models = initializeModels /\ req[r].kind = "route"
            /\ ExampleConstraints(req[r].constraints)) =>
            /\ {<<m.model, m.quality, CombinedRate(m)>> : m \in CatalogModels}
                    = {<<"gpt-4o", "high", 2000>>,
                       <<"gpt-4o-mini", "medium", 75>>,
                       <<"gpt-3.5-turbo", "low", 200>>,
                       <<"text-embedding-3-small", "medium", 2>>}
            /\ {m.model : m \in Range(req[r].routed.available)}
                    = {"gpt-4o", "gpt-4o-mini"}
            /\ req[r].routed.ok
            /\ req[r].routed.model.model = "gpt-4o-mini"

\* the example's routeRequest call has returned on the built-in catalog
C8_Witness ==
    \E r \in Reqs :
        /\ models = initializeModels
        /\ req[r].kind = "route"
        /\ ExampleConstraints(req[r].constraints)
        /\ req[r].pc = "Completed"
        /\ Len(req[r].routed.available) = 2

\* ------------------------------------------------------------------------
\* C9
\* ------------------------------------------------------------------------

FullPath == <<"Constructing", "Selecting", "Executing", "Accounting", "Completed">>

\* C9: on the built-in catalog a chatCompletion request ends Failed only when
\* its provider call failed or returned no usage data; a request whose
\* provider call returns usage data passes through Selecting, Executing and
\* Accounting in that order and ends Completed.
C9_ChatCompletes ==
    \A r \in Reqs :
        (models = initializeModels /\ req[r].kind = "chat") =>
            /\ req[r].pc = "Failed" =>
                    /\ req[r].providerCalls = 1
                    /\ \/ req[r].response.status # "ok"
                       \/ req[r].response.usage = << >>
            /\ req[r].pc = "Completed" => req[r].hist = FullPath

\* ------------------------------------------------------------------------
\* C10
\* ------------------------------------------------------------------------

\* invocation r is a chatCompletion or a generateEmbeddings request
Facade(r) == req[r].kind \in {"chat", "embed"}

Terminal == {"Completed", "Failed"}

C10_Paths ==
    \A r \in Reqs :
        Facade(r) =>
            LET h == req[r].hist
                n == Len(h)
            IN  /\ req[r].pc = h[n]
                /\ \A i \in 1..n :
                        h[i] = "Failed" =>
                            /\ i > 1
                            /\ h[i - 1] \in {"Selecting", "Executing"}
                /\ (req[r].pc = "Failed" /\ h[n - 1] = "Selecting") =>
                        /\ req[r].providerCalls = 0
                        /\ req[r].error \in {NoModelsAvailable, EmbeddingModelMissing}
                /\ (req[r].pc = "Failed" /\ h[n - 1] = "Executing") =>
                        /\ req[r].providerCalls = 1
                        /\ \/ req[r].response.status # "ok"
                           \/ req[r].response.usage = << >>
                /\ \A i \in 1..(n - 1) : h[i] \notin Terminal
                /\ \A i \in 1..n :
                        h[i] \in {"Accounting", "Completed"} =>
                            /\ req[r].providerCalls >= 1
                            /\ \E j \in 1..(i - 1) : h[j] = "Executing"

C10_Stays ==
    \A r \in Reqs :
        (Facade(r) /\ req[r].pc \in Terminal) => req'[r] = req[r]

\* C10: a chatCompletion or generateEmbeddings request enters Failed only from
\* Selecting (no model for it) or from Executing (the provider call failed or
\* carried no usage); Completed and Failed are terminal; and no request reaches
\* Accounting or Completed without having made its provider call.
C10_FailedOnlyFromSelectingOrExecuting == [](C10_Paths) /\ [][C10_Stays]_vars

\* one request has failed from Selecting and another from Executing
C10_Witness ==
    \E r1, r2 \in Reqs :
        /\ Facade(r1) /\ Facade(r2)
        /\ req[r1].hist = <<"Constructing", "Selecting", "Failed">>
        /\ req[r2].hist = <<"Constructing", "Selecting", "Executing", "Failed">>

\* ------------------------------------------------------------------------
\* Vocabulary of the accounting properties.  The router keeps no ledger: it
\* tracks the cost of a call by writing one console line, and these lines, in
\* the order written, are taken as its usage records.
\* ------------------------------------------------------------------------

\* the usage records written so far
UsageLines == SelectSeq(console, CostLine)

\* the usage records written by invocation r
LinesBy(r) == SelectSeq(console, LAMBDA l : CostLine(l) /\ l.by = r)

\* the usage records of organization orgId among the lines of log
OwnLines(log, orgId) == SelectSeq(log, LAMBDA l : CostLine(l) /\ l.orgId = orgId)

\* the console as it was when getCostSummary invocation r was made: the lines
\* before its own line
SeenBy(r) ==
    LET i == CHOOSE i \in 1..Len(console) :
                console[i].by = r /\ console[i].text = "Cost summary requested for org"
    IN  SubSeq(console, 1, i - 1)

\* input and output tokens of the completed call q
TokensIn(q) == req[q].response.usage[1].prompt_tokens

TokensOut(q) ==
    IF req[q].kind = "chat" THEN req[q].response.usage[1].completion_tokens ELSE 0

\* the cost of the completed call q by the formula of the usage record, in
\* 10^-8 USD
RecordCost(q) ==
    TokensIn(q) * req[q].selected.costPer1kInput
        + TokensOut(q) * req[q].selected.costPer1kOutput

RECURSIVE SumCost(_)
SumCost(lines) ==
    IF lines = << >> THEN 0
    ELSE RecordCost(lines[1].by) + SumCost(SubSeq(lines, 2, Len(lines)))

RECURSIVE SumTokens(_)
SumTokens(lines) ==
    IF lines = << >> THEN 0
    ELSE TokensIn(lines[1].by) + TokensOut(lines[1].by)
            + SumTokens(SubSeq(lines, 2, Len(lines)))

\* the sum of a per-model breakdown
RECURSIVE SumBreakdown(_)
SumBreakdown(b) ==
    IF DOMAIN b = {} THEN 0
    ELSE LET k == CHOOSE k \in DOMAIN b : TRUE
         IN  b[k] + SumBreakdown([j \in DOMAIN b \ {k} |-> b[j]])

\* ------------------------------------------------------------------------
\* C11
\* ------------------------------------------------------------------------

C12_FailureStep ==
    \A r \in Reqs :
        (Facade(r) /\ req[r].pc # "Failed" /\ req'[r].pc = "Failed") =>
            /\ SelectSeq(console', CostLine) = SelectSeq(console, CostLine)
            /\ \A orgId \in Orgs :
                    getCostSummary(console', orgId) = getCostSummary(console, orgId)
            /\ req'[r].result = Nothing

\* C12: a step in which a chatCompletion or generateEmbeddings call fails
\* (selection failure, provider error, or response without usage) writes no
\* usage record, changes no organization's cost summary and leaves the call
\* without a result.
C12_FailureRecordsNothing == [][C12_FailureStep]_vars

\* a call has failed on a response without usage after another call's usage
\* record was written
C12_Witness ==
    \E r \in Reqs :
        /\ Facade(r)
        /\ req[r].pc = "Failed"
        /\ req[r].error \in {NoUsageData, UsageTypeError}
        /\ Len(UsageLines) = 1

\* ------------------------------------------------------------------------
\* C13
\* ------------------------------------------------------------------------

\* C13: the cost a completed chat call reports is
\* (inputTokens/1000)*costPer1kInput + (outputTokens/1000)*costPer1kOutput of
\* the selected model on the provider's token counts, unrounded (in 10^-8 USD:
\* tokens times rate); rounding to six decimals happens only in the text of
\* the cost line; and 100 input and 50 output tokens on gpt-4o-mini cost
\* 0.000045 USD.
C13_ExactCost ==
    /\ calculateCost(100, 50, Gpt4oMini) = 4500
    /\ \A r \in Reqs :
        (req[r].kind = "chat" /\ req[r].pc = "Completed") =>
            LET u == req[r].response.usage[1]
                m == req[r].selected
                exact == u.prompt_tokens * m.costPer1kInput
                            + u.completion_tokens * m.costPer1kOutput
            IN  /\ req[r].result.usage.cost = exact
                /\ req[r].result.model = m.model
                /\ LinesBy(r)[1].cost * 100 <= exact + 50
                /\ LinesBy(r)[1].cost * 100 > exact - 50

\* a completed chat call whose cost is not a whole number of 10^-6 USD
C13_Witness ==
    \E r \in Reqs :
        /\ req[r].kind = "chat"
        /\ req[r].pc = "Completed"
        /\ req[r].result.usage.cost % 100 # 0

\* ------------------------------------------------------------------------
\* C14
\* ------------------------------------------------------------------------

C15_VectorsInInputOrder ==
    \A r \in Reqs :
        (req[r].kind = "embed" /\ req[r].pc = "Completed") =>
            LET texts == req[r].request.input.texts
                u == req[r].response.usage[1]
            IN  /\ LinesBy(r)[1].cost
                        = toFixed6(u.prompt_tokens * req[r].selected.costPer1kInput)
                /\ Len(req[r].result.data) = Len(texts)
                /\ \A i \in 1..Len(texts) :
                        req[r].result.data[i].embedding = <<"vector of", texts[i]>>

\* ------------------------------------------------------------------------
\* C16
\* ------------------------------------------------------------------------

\* C16: getCostSummary(O), made after N successful chatCompletion and
\* generateEmbeddings calls for O, returns requests = N, totalCost = the sum of
\* their costs, totalTokens = the sum of their token totals, and a breakdown
\* that sums to totalCost.
C16_SummaryIsFold ==
    \A r \in Reqs :
        req[r].kind = "summary" =>
            LET own == OwnLines(SeenBy(r), req[r].orgId)
            IN  /\ req[r].result.requests = Len(own)
                /\ req[r].result.totalCost = SumCost(own)
                /\ req[r].result.totalTokens = SumTokens(own)
                /\ SumBreakdown(req[r].result.breakdown) = req[r].result.totalCost

\* ------------------------------------------------------------------------
\* C17
\* ------------------------------------------------------------------------

\* C17: what getCostSummary(A) returns is determined by the usage records of
\* organization A alone: it equals the summary of the run purged of every
\* other organization's records, so two runs that agree on A's calls give the
\* same summary.
C17_TenantIsolation ==
    \A r \in Reqs :
        req[r].kind = "summary" =>
            req[r].result
                = getCostSummary(OwnLines(SeenBy(r), req[r].orgId), req[r].orgId)

\* a summary for one organization made after a usage record of another
C17_Witness ==
    \E r \in Reqs :
        /\ req[r].kind = "summary"
        /\ \E i \in 1..Len(SeenBy(r)) :
                /\ CostLine(SeenBy(r)[i])
                /\ SeenBy(r)[i].orgId # req[r].orgId

\* ------------------------------------------------------------------------
\* C18
\* ------------------------------------------------------------------------

\* every invocation has ended
AllEnded == \A r \in Reqs : req[r].kind = "none" \/ req[r].pc \in Terminal

\* the successful calls made for organization orgId
CompletedFor(orgId) ==
    {q \in Reqs : Facade(q) /\ req[q].pc = "Completed" /\ req[q].orgId = orgId}

RECURSIVE SumOver(_)
SumOver(S) ==
    IF S = {} THEN 0
    ELSE LET q == CHOOSE q \in S : TRUE
         IN  RecordCost(q) + SumOver(S \ {q})

\* C18: once k concurrent calls have succeeded, in whatever interleaving, there
\* are exactly k usage records and the summary total of each organization is
\* the sum of the costs of its calls.
C18_NoLostUpdate ==
    AllEnded =>
        /\ Len(UsageLines) = Cardinality({q \in Reqs : Facade(q) /\ req[q].pc = "Completed"})
        /\ \A o \in Orgs :
                getCostSummary(console, o).totalCost = SumOver(CompletedFor(o))

\* ------------------------------------------------------------------------
\* C19
\* ------------------------------------------------------------------------

\* C19: the requests, totalCost and totalTokens of a summary are those of one
\* and the same prefix of the organization's usage records written before it.
C19_ConsistentSnapshot ==
    \A r \in Reqs :
        req[r].kind = "summary" =>
            LET own == OwnLines(SeenBy(r), req[r].orgId)
            IN  \E n \in 0..Len(own) :
                    /\ req[r].result.requests = n
                    /\ req[r].result.totalCost = SumCost(SubSeq(own, 1, n))
                    /\ req[r].result.totalTokens = SumTokens(SubSeq(own, 1, n))

\* a summary made while a call for the same organization was in flight: the
\* call had started before it and wrote its usage record after it
C19_Witness ==
    \E r \in Reqs : \E q \in Reqs :
        /\ req[r].kind = "summary"
        /\ Facade(q)
        /\ q < r
        /\ req[q].orgId = req[r].orgId
        /\ Len(LinesBy(q)) = 1
        /\ \A i \in 1..Len(SeenBy(r)) : SeenBy(r)[i].by # q

\* ------------------------------------------------------------------------
\* C20
\* ------------------------------------------------------------------------

\* C20: a call whose caller gave up while the provider call was in flight
\* writes no usage record, also when the provider answers afterwards.
C20_CancelledWritesNothing ==
    \A r \in Reqs : req[r].cancelled => Len(LinesBy(r)) = 0

\* ------------------------------------------------------------------------
\* C21
\* ------------------------------------------------------------------------

\* the constraints of an embedding request: those of a chat request with the
\* required capabilities replaced by {embeddings}
embeddingConstraints ==
    [chatConstraints EXCEPT !.requiredCapabilities = {"embeddings"}]

ThrownAs(error) ==
    IF error \in ProviderErrors THEN error
    ELSE IF error = UsageTypeError THEN "TypeError"
    ELSE "Error"

FailureClasses ==
    {"NoFeasibleModel", "InvalidRequest", "RateLimited", "ProviderError", "NotFound"}

\* the failure class a caller can read off the rejected value
ClassOf(thrown) ==
    CASE thrown = "RateLimitError" -> "RateLimited"
      [] thrown = "BadRequestError" -> "InvalidRequest"
      [] thrown = "InternalServerError" -> "ProviderError"
      [] OTHER -> "generic"

\* C22: every failure of chatCompletion or generateEmbeddings reaches the
\* caller as one of NoFeasibleModel, InvalidRequest, RateLimited, ProviderError
\* and NotFound: a failed selection as NoFeasibleModel, and a provider
\* rate-limit as RateLimited.
C22_FailuresClassified ==
    \A r \in Reqs :
        (Facade(r) /\ req[r].pc = "Failed") =>
            LET class == ClassOf(ThrownAs(req[r].error))
            IN  /\ class \in FailureClasses
                /\ req[r].providerCalls = 0 => class = "NoFeasibleModel"
                /\ (req[r].providerCalls > 0 /\ req[r].response.status = "RateLimitError")
                        => class = "RateLimited"

\* ------------------------------------------------------------------------
\* C23
\* ------------------------------------------------------------------------

\* the provider call of chatCompletion invocation r has been issued
Sent(r) == req[r].kind = "chat" /\ req[r].providerCalls > 0

\* the maxTokens a request asks for, 1000 when it gives none
Requested(request) ==
    IF request.maxTokens = << >> THEN 1000 ELSE request.maxTokens[1]

C29_ModelOptionIgnored ==
    \A r \in Reqs :
        req[r].kind = "chat" =>
            LET routed == routeRequest(models, chatConstraints)
            IN  /\ req[r].routed = routed
                /\ req[r].pc = "Failed" /\ req[r].providerCalls = 0
                        => req[r].error = NoModelsAvailable
                /\ Sent(r) =>
                        /\ req[r].selected = routed.model
                        /\ req[r].sent.model = routed.model.model

\* a chat call that names a model executes on another one
C29_Witness ==
    \E r \in Reqs :
        /\ Sent(r)
        /\ req[r].request.model # << >>
        /\ req[r].sent.model # req[r].request.model[1]

\* ------------------------------------------------------------------------
\* C30
\* ------------------------------------------------------------------------

\* the value of an option, d when the request does not give it
Supplied(opt, d) == IF opt = << >> THEN d ELSE opt[1]

C24_Keys ==
    /\ \A i \in 1..Len(models) : models[i].key = models[i].value.model
    /\ \A i, j \in 1..Len(models) : models[i].key = models[j].key => i = j

\* C24: no call of routeRequest, chatCompletion, generateEmbeddings or
\* getCostSummary, and no continuation of one, adds, removes, reorders or alters
\* a catalog entry, the sort of the selection included; and each entry is
\* stored under a key equal to its own unique model name.
C24_CatalogFixed == [](C24_Keys) /\ [][models' = models]_vars

\* a selection whose sort put another model first than the catalog lists
\* first among the available ones
C24_Witness ==
    \E r \in Reqs :
        /\ Returned(r)
        /\ Len(req[r].routed.available) >= 2
        /\ req[r].routed.model # req[r].routed.available[1]

\* ------------------------------------------------------------------------
\* C25
\* ------------------------------------------------------------------------

C26_LabelsIgnored ==
    \A r \in Reqs :
        req[r].kind = "route" =>
            req[r].routed
                = routeRequest(models,
                        [req[r].constraints EXCEPT !.task = "chat", !.locale = "en"])

\* a selection under other labels than chat and en has returned a model
C26_Witness ==
    \E r \in Reqs :
        /\ req[r].kind = "route"
        /\ Returned(r)
        /\ req[r].constraints.task # "chat"
        /\ req[r].constraints.locale # "en"

\* ------------------------------------------------------------------------
\* C27
\* ------------------------------------------------------------------------

\* the provider call of invocation r has settled with this response
Answered(r) == req[r].providerCalls > 0 /\ req[r].pc \in Terminal

\* C27: the prompt and completion token counts chatCompletion returns, and
\* the ones its cost is computed from, are those of the provider response; and
\* when the provider call succeeds without usage data the call fails, with no
\* envelope returned and no cost tracked.
C27_UsageFromProvider ==
    \A r \in Reqs :
        (req[r].kind = "chat" /\ Answered(r)) =>
            /\ req[r].pc = "Completed" =>
                    /\ req[r].response.usage # << >>
                    /\ req[r].result.usage.promptTokens
                            = req[r].response.usage[1].prompt_tokens
                    /\ req[r].result.usage.completionTokens
                            = req[r].response.usage[1].completion_tokens
                    /\ req[r].result.usage.cost
                            = calculateCost(req[r].response.usage[1].prompt_tokens,
                                            req[r].response.usage[1].completion_tokens,
                                            req[r].selected)
            /\ (req[r].response.status = "ok" /\ req[r].response.usage = << >>) =>
                    /\ req[r].pc = "Failed"
                    /\ req[r].error = NoUsageData
                    /\ req[r].result = Nothing
                    /\ Len(LinesBy(r)) = 0

\* a chat call whose provider call succeeded without usage data
C27_Witness ==
    \E r \in Reqs :
        /\ req[r].kind = "chat"
        /\ Answered(r)
        /\ req[r].response.status = "ok"
        /\ req[r].response.usage = << >>

\* ------------------------------------------------------------------------
\* C28
\* ------------------------------------------------------------------------

====
